---- MODULE Spec2Model ----
(***************************************************************************)
(* GrSamplerState (third_party/skia/include/gpu/GrSamplerState.h): the     *)
(* sampler descriptor as a state machine.  One variable per data member,   *)
(* one action per mutator, Init is the object right after one of its five  *)
(* constructors has run.                                                   *)
(*                                                                         *)
(* Scalars and floats are modelled by integers (only equality, copying    *)
(* and zero-filling are used by the class).  A member a constructor does   *)
(* not write holds an indeterminate value: it is drawn from a set of       *)
(* possible contents of the raw storage.                                   *)
(***************************************************************************)
EXTENDS Integers, Sequences, FiniteSets, TLC

VARIABLES fWrapX, fWrapY, fSampleMode, fFilter, fMatrix, fSwapRAndB,
          fTextureDomain, fRadial2CenterX1, fRadial2Radius0, fRadial2PosRoot,
          fKernelWidth, fImageIncrement, fKernel,
          halted, last

samplerFields == <<fWrapX, fWrapY, fSampleMode, fFilter, fMatrix, fSwapRAndB,
                   fTextureDomain>>
radial2Fields == <<fRadial2CenterX1, fRadial2Radius0, fRadial2PosRoot>>
convolutionFields == <<fKernelWidth, fImageIncrement, fKernel>>
vars == <<samplerFields, radial2Fields, convolutionFields, halted, last>>

----------------------------------------------------------------------------
(* Types of the header.                                                    *)

MAX_KERNEL_WIDTH == 25

\* Largest magnitude of a matrix entry the model represents.
MaxEntry == 2

\* Largest of the small kernel widths the caller passes.
SmallWidth == 2

\* uint8_t fKernelWidth: values are kept modulo 2^8.
UInt8Mod == 256

Filter == {"kNearest_Filter", "kBilinear_Filter", "k4x4Downsample_Filter",
           "kConvolution_Filter"}

SampleMode == {"kNormal_SampleMode", "kRadial_SampleMode",
               "kRadial2_SampleMode", "kSweep_SampleMode"}

WrapMode == {"kClamp_WrapMode", "kRepeat_WrapMode", "kMirror_WrapMode"}

\* Pointers, for the two array parameters of setConvolutionParams: the null
\* pointer, and a pointer to an array with the given elements.
NULL == [isNull |-> TRUE]
Ptr(elems) == [isNull |-> FALSE, at |-> elems]

\* Indices of float fKernel[MAX_KERNEL_WIDTH].
KernelIdx == 0 .. (MAX_KERNEL_WIDTH - 1)

----------------------------------------------------------------------------
(* The collaborators: scalar, rectangle, matrix, assertion.                *)

\* GR_Scalar1, the scalar "one".
GR_Scalar1 == 1

\* SkIntToScalar(n) with GR_Scalar1 as the unit.
SkIntToScalar(n) == n * GR_Scalar1

\* SkToBool(x): any non-zero SkBool8 is true.
SkToBool(x) == x # 0

\* bool -> SkBool8 (implicit conversion in the assignment of line 234).
BoolToSkBool8(b) == IF b THEN 1 ELSE 0

\* GrRect: four scalar edges.
Rect(l, t, r, b) == [left |-> l, top |-> t, right |-> r, bottom |-> b]

\* GrRect::setEmpty(): all four edges zero.
GrRect_setEmpty == Rect(0, 0, 0, 0)

\* GrMatrix: 3x3, row-major <<m0..m8>>; points are column vectors <<x,y,w>>.
MatAt(m, r, c) == m[3 * r + c + 1]

GrMatrix_setIdentity == <<1, 0, 0,
                          0, 1, 0,
                          0, 0, 1>>

\* The product a*b of two matrices.
MatMul(a, b) ==
    [k \in 1..9 |->
        LET r == (k - 1) \div 3
            c == (k - 1) % 3
        IN  MatAt(a, r, 0) * MatAt(b, 0, c)
          + MatAt(a, r, 1) * MatAt(b, 1, c)
          + MatAt(a, r, 2) * MatAt(b, 2, c)]

\* GrMatrix::preConcat(m): M' = M*m.
GrMatrix_preConcat(M, m) == MatMul(M, m)

\* t' = X*t for a column vector t (homogeneous coordinates, no division).
MapPoint(X, t) ==
    [r \in 1..3 |->
          MatAt(X, r - 1, 0) * t[1]
        + MatAt(X, r - 1, 1) * t[2]
        + MatAt(X, r - 1, 2) * t[3]]

\* GrAssert(cond): a failed assertion is fatal, the call does not return.
GrAssert(cond) == cond

----------------------------------------------------------------------------
(* Accessors.                                                              *)

getWrapX == fWrapX
getWrapY == fWrapY
getSampleMode == fSampleMode
getMatrix == fMatrix
getTextureDomain == fTextureDomain
\* C7 mutant: the domain is tested with the rectangle's emptiness, not with
\* its right edge.
hasTextureDomain_NotEmpty ==
    ~(\/ fTextureDomain.left >= fTextureDomain.right
      \/ fTextureDomain.top >= fTextureDomain.bottom)

hasTextureDomain == SkIntToScalar(0) # fTextureDomain.right
getFilter == fFilter
getKernelWidth == fKernelWidth
getKernel == fKernel
getImageIncrement == fImageIncrement
swapsRAndB == fSwapRAndB

isGradient ==
    \/ "kRadial_SampleMode" = fSampleMode
    \/ "kRadial2_SampleMode" = fSampleMode
    \/ "kSweep_SampleMode" = fSampleMode

getRadial2CenterX1 == fRadial2CenterX1
getRadial2Radius0 == fRadial2Radius0
isRadial2PosRoot == SkToBool(fRadial2PosRoot)
radial2IsDegenerate == GR_Scalar1 = fRadial2CenterX1

----------------------------------------------------------------------------
(* Constructors.  raw is the content of the storage the object is built    *)
(* in: [swap, width, incr, kernel]; a member the constructor does not      *)
(* assign keeps it.                                                        *)

Call(op, args) == [op |-> op, args |-> args]

\* The values setClampNoFilter() assigns, in the order of its statements.
ClampNoFilterValues ==
    [wrapX |-> "kClamp_WrapMode", wrapY |-> "kClamp_WrapMode",
     sampleMode |-> "kNormal_SampleMode", filter |-> "kNearest_Filter",
     matrix |-> GrMatrix_setIdentity, textureDomain |-> GrRect_setEmpty,
     swapRAndB |-> FALSE]

\* The member initialisers shared by the five constructors, and the members
\* none of them writes.
CtorCommon(raw) ==
    /\ fRadial2CenterX1 = 0
    /\ fRadial2Radius0 = 0
    /\ fRadial2PosRoot = 0
    /\ fKernelWidth = raw.width
    /\ fImageIncrement = raw.incr
    /\ fKernel = raw.kernel
    /\ halted = FALSE

CtorDefault(raw) ==
    /\ CtorCommon(raw)
    /\ fWrapX = ClampNoFilterValues.wrapX
    /\ fWrapY = ClampNoFilterValues.wrapY
    /\ fSampleMode = ClampNoFilterValues.sampleMode
    /\ fFilter = ClampNoFilterValues.filter
    /\ fMatrix = ClampNoFilterValues.matrix
    /\ fTextureDomain = ClampNoFilterValues.textureDomain
    /\ fSwapRAndB = ClampNoFilterValues.swapRAndB
    /\ last = Call("GrSamplerState()", <<>>)

CtorFilter(raw, filter) ==
    /\ CtorCommon(raw)
    /\ fWrapX = "kClamp_WrapMode"
    /\ fWrapY = "kClamp_WrapMode"
    /\ fSampleMode = "kNormal_SampleMode"
    /\ fFilter = filter
    /\ fMatrix = GrMatrix_setIdentity
    /\ fTextureDomain = GrRect_setEmpty
    /\ fSwapRAndB = raw.swap
    /\ last = Call("GrSamplerState(Filter)", <<filter>>)

CtorWrapFilter(raw, wx, wy, filter) ==
    /\ CtorCommon(raw)
    /\ fWrapX = wx
    /\ fWrapY = wy
    /\ fSampleMode = "kNormal_SampleMode"
    /\ fFilter = filter
    /\ fMatrix = GrMatrix_setIdentity
    /\ fSwapRAndB = FALSE
    /\ fTextureDomain = GrRect_setEmpty
    /\ last = Call("GrSamplerState(WrapMode,WrapMode,Filter)", <<wx, wy, filter>>)

CtorWrapMatrixFilter(raw, wx, wy, matrix, filter) ==
    /\ CtorCommon(raw)
    /\ fWrapX = wx
    /\ fWrapY = wy
    /\ fSampleMode = "kNormal_SampleMode"
    /\ fFilter = filter
    /\ fMatrix = matrix
    /\ fSwapRAndB = FALSE
    /\ fTextureDomain = GrRect_setEmpty
    /\ last = Call("GrSamplerState(WrapMode,WrapMode,GrMatrix,Filter)",
                   <<wx, wy, matrix, filter>>)

CtorFull(raw, wx, wy, sample, matrix, filter) ==
    /\ CtorCommon(raw)
    /\ fWrapX = wx
    /\ fWrapY = wy
    /\ fSampleMode = sample
    /\ fMatrix = matrix
    /\ fFilter = filter
    /\ fSwapRAndB = FALSE
    /\ fTextureDomain = GrRect_setEmpty
    /\ last = Call("GrSamplerState(WrapMode,WrapMode,SampleMode,GrMatrix,Filter)",
                   <<wx, wy, sample, matrix, filter>>)

----------------------------------------------------------------------------
(* Mutators.  A call on an object whose process was aborted never happens. *)

setWrapX(mode) ==
    /\ ~halted
    /\ fWrapX' = mode
    /\ last' = Call("setWrapX", <<mode>>)
    /\ UNCHANGED <<fWrapY, fSampleMode, fFilter, fMatrix, fSwapRAndB,
                   fTextureDomain, radial2Fields, convolutionFields, halted>>

setWrapY(mode) ==
    /\ ~halted
    /\ fWrapY' = mode
    /\ last' = Call("setWrapY", <<mode>>)
    /\ UNCHANGED <<fWrapX, fSampleMode, fFilter, fMatrix, fSwapRAndB,
                   fTextureDomain, radial2Fields, convolutionFields, halted>>

setSampleMode(mode) ==
    /\ ~halted
    /\ fSampleMode' = mode
    /\ last' = Call("setSampleMode", <<mode>>)
    /\ UNCHANGED <<fWrapX, fWrapY, fFilter, fMatrix, fSwapRAndB,
                   fTextureDomain, radial2Fields, convolutionFields, halted>>

setMatrix(matrix) ==
    /\ ~halted
    /\ fMatrix' = matrix
    /\ last' = Call("setMatrix", <<matrix>>)
    /\ UNCHANGED <<fWrapX, fWrapY, fSampleMode, fFilter, fSwapRAndB,
                   fTextureDomain, radial2Fields, convolutionFields, halted>>

setTextureDomain(textureDomain) ==
    /\ ~halted
    /\ fTextureDomain' = textureDomain
    /\ last' = Call("setTextureDomain", <<textureDomain>>)
    /\ UNCHANGED <<fWrapX, fWrapY, fSampleMode, fFilter, fMatrix, fSwapRAndB,
                   radial2Fields, convolutionFields, halted>>

setRAndBSwap(swap) ==
    /\ ~halted
    /\ fSwapRAndB' = swap
    /\ last' = Call("setRAndBSwap", <<swap>>)
    /\ UNCHANGED <<fWrapX, fWrapY, fSampleMode, fFilter, fMatrix,
                   fTextureDomain, radial2Fields, convolutionFields, halted>>

\* The entries of a matrix stay within the range the model represents.
InRange(m) == \A k \in 1..9 : m[k] \in -MaxEntry .. MaxEntry

\* C6 mutant: the argument is multiplied on the left, M' = m*M.
preConcatMatrix_PostConcat(matrix) ==
    /\ ~halted
    /\ InRange(MatMul(matrix, fMatrix))
    /\ fMatrix' = MatMul(matrix, fMatrix)
    /\ last' = Call("preConcatMatrix", <<matrix, fMatrix>>)
    /\ UNCHANGED <<fWrapX, fWrapY, fSampleMode, fFilter, fSwapRAndB,
                   fTextureDomain, radial2Fields, convolutionFields, halted>>

preConcatMatrix(matrix) ==
    /\ ~halted
    /\ InRange(GrMatrix_preConcat(fMatrix, matrix))
    /\ fMatrix' = GrMatrix_preConcat(fMatrix, matrix)
    /\ last' = Call("preConcatMatrix", <<matrix, fMatrix>>)
    /\ UNCHANGED <<fWrapX, fWrapY, fSampleMode, fFilter, fSwapRAndB,
                   fTextureDomain, radial2Fields, convolutionFields, halted>>

setFilter(filter) ==
    /\ ~halted
    /\ fFilter' = filter
    /\ last' = Call("setFilter", <<filter>>)
    /\ UNCHANGED <<fWrapX, fWrapY, fSampleMode, fMatrix, fSwapRAndB,
                   fTextureDomain, radial2Fields, convolutionFields, halted>>

\* C2 mutant: the reset forgets fTextureDomain.setEmpty().
setClampNoFilter_KeepsDomain ==
    /\ ~halted
    /\ fWrapX' = ClampNoFilterValues.wrapX
    /\ fWrapY' = ClampNoFilterValues.wrapY
    /\ fSampleMode' = ClampNoFilterValues.sampleMode
    /\ fFilter' = ClampNoFilterValues.filter
    /\ fMatrix' = ClampNoFilterValues.matrix
    /\ fSwapRAndB' = ClampNoFilterValues.swapRAndB
    /\ last' = Call("setClampNoFilter", <<>>)
    /\ UNCHANGED <<fTextureDomain, radial2Fields, convolutionFields, halted>>

\* C5 mutant: the reset also clears the gradient and convolution members.
setClampNoFilter_ClearsAux ==
    /\ ~halted
    /\ fWrapX' = ClampNoFilterValues.wrapX
    /\ fWrapY' = ClampNoFilterValues.wrapY
    /\ fSampleMode' = ClampNoFilterValues.sampleMode
    /\ fFilter' = ClampNoFilterValues.filter
    /\ fMatrix' = ClampNoFilterValues.matrix
    /\ fTextureDomain' = ClampNoFilterValues.textureDomain
    /\ fSwapRAndB' = ClampNoFilterValues.swapRAndB
    /\ fRadial2CenterX1' = 0
    /\ fRadial2Radius0' = 0
    /\ fRadial2PosRoot' = 0
    /\ fKernelWidth' = 0
    /\ fImageIncrement' = <<0, 0>>
    /\ fKernel' = [i \in DOMAIN fKernel |-> 0]
    /\ last' = Call("setClampNoFilter", <<>>)
    /\ UNCHANGED halted

setClampNoFilter ==
    /\ ~halted
    /\ fWrapX' = ClampNoFilterValues.wrapX
    /\ fWrapY' = ClampNoFilterValues.wrapY
    /\ fSampleMode' = ClampNoFilterValues.sampleMode
    /\ fFilter' = ClampNoFilterValues.filter
    /\ fMatrix' = ClampNoFilterValues.matrix
    /\ fTextureDomain' = ClampNoFilterValues.textureDomain
    /\ fSwapRAndB' = ClampNoFilterValues.swapRAndB
    /\ last' = Call("setClampNoFilter", <<>>)
    /\ UNCHANGED <<radial2Fields, convolutionFields, halted>>

\* C8 mutant: the two scalars are stored in each other's member.
setRadial2Params_Swapped(centerX1, radius0, posRoot) ==
    /\ ~halted
    /\ fRadial2CenterX1' = radius0
    /\ fRadial2Radius0' = centerX1
    /\ fRadial2PosRoot' = BoolToSkBool8(posRoot)
    /\ last' = Call("setRadial2Params", <<centerX1, radius0, posRoot>>)
    /\ UNCHANGED <<samplerFields, convolutionFields, halted>>

setRadial2Params(centerX1, radius0, posRoot) ==
    /\ ~halted
    /\ fRadial2CenterX1' = centerX1
    /\ fRadial2Radius0' = radius0
    /\ fRadial2PosRoot' = BoolToSkBool8(posRoot)
    /\ last' = Call("setRadial2Params", <<centerX1, radius0, posRoot>>)
    /\ UNCHANGED <<samplerFields, convolutionFields, halted>>

\* C3 mutant: the copy stops one element short.
MemcpyFloats_OneShort(dst, src, n) ==
    [i \in DOMAIN dst |-> IF i < n - 1 THEN src[i + 1] ELSE dst[i]]

\* memcpy(dst, src, n * sizeof(float)): the first n elements of dst are
\* replaced by those of src (src is 1-indexed, dst 0-indexed); the rest of
\* dst is kept.
MemcpyFloats(dst, src, n) ==
    [i \in DOMAIN dst |-> IF i < n THEN src[i + 1] ELSE dst[i]]

\* C4 mutant: the width is not checked before it is stored and used.
setConvolutionParams_NoCheck(kernelWidth, kernel, imageIncrement) ==
    /\ ~halted
    /\ last' = Call("setConvolutionParams",
                    <<kernelWidth, kernel, imageIncrement>>)
    /\ fKernelWidth' = kernelWidth % UInt8Mod
    /\ fKernel' = IF NULL # kernel
                  THEN MemcpyFloats(fKernel, kernel.at, kernelWidth)
                  ELSE fKernel
    /\ fImageIncrement' = IF NULL # imageIncrement
                          THEN imageIncrement.at
                          ELSE <<0, 0>>
    /\ UNCHANGED <<samplerFields, radial2Fields, halted>>

setConvolutionParams(kernelWidth, kernel, imageIncrement) ==
    /\ ~halted
    /\ last' = Call("setConvolutionParams",
                    <<kernelWidth, kernel, imageIncrement>>)
    /\ IF ~GrAssert(kernelWidth >= 0 /\ kernelWidth <= MAX_KERNEL_WIDTH)
       THEN /\ halted' = TRUE
            /\ UNCHANGED <<samplerFields, radial2Fields, convolutionFields>>
       ELSE /\ fKernelWidth' = kernelWidth % UInt8Mod
            /\ fKernel' = IF NULL # kernel
                          THEN MemcpyFloats(fKernel, kernel.at, kernelWidth)
                          ELSE fKernel
            /\ fImageIncrement' = IF NULL # imageIncrement
                                  THEN imageIncrement.at
                                  ELSE <<0, 0>>
            /\ UNCHANGED <<samplerFields, radial2Fields, halted>>

----------------------------------------------------------------------------
(* The caller.  in gives the sets the caller draws its arguments from, and *)
(* the possible contents of the storage before construction.               *)

\* A kernel of kernelWidth weights; the weight at index i is seed + i.
KernelArg(kernelWidth, seed) == Ptr([i \in 1 .. kernelWidth |-> seed + i])

RawStorage(in) ==
    { [swap |-> b, width |-> w, incr |-> <<x, x + 1>>,
       kernel |-> [i \in KernelIdx |-> x]] :
        b \in in.rawBool, w \in in.rawByte, x \in in.rawFloat }

Construct(in) ==
    \E raw \in RawStorage(in) :
        \/ CtorDefault(raw)
        \/ \E f \in in.filter : CtorFilter(raw, f)
        \/ \E wx \in in.wrap, wy \in in.wrap, f \in in.filter :
              CtorWrapFilter(raw, wx, wy, f)
        \/ \E wx \in in.wrap, wy \in in.wrap, m \in in.matrix, f \in in.filter :
              CtorWrapMatrixFilter(raw, wx, wy, m, f)
        \/ \E wx \in in.wrap, wy \in in.wrap, sm \in in.sample,
               m \in in.matrix, f \in in.filter :
              CtorFull(raw, wx, wy, sm, m, f)

Mutate(in) ==
    \/ \E mode \in in.wrap : setWrapX(mode)
    \/ \E mode \in in.wrap : setWrapY(mode)
    \/ \E mode \in in.sample : setSampleMode(mode)
    \/ \E m \in in.matrix : setMatrix(m)
    \/ \E r \in in.domain : setTextureDomain(r)
    \/ \E b \in in.swap : setRAndBSwap(b)
    \/ \E m \in in.concat : preConcatMatrix(m)
    \/ \E f \in in.filter : setFilter(f)
    \/ setClampNoFilter
    \/ \E c \in in.centerX1, r \in in.radius0, p \in in.posRoot :
          setRadial2Params(c, r, p)
    \/ \E k \in in.width, inc \in in.incr :
          \/ setConvolutionParams(k, NULL, inc)
          \/ \E seed \in in.seed : setConvolutionParams(k, KernelArg(k, seed), inc)

----------------------------------------------------------------------------
(* Argument values.                                                        *)

MatTranslate == <<1, 0, 1,
                  0, 1, 2,
                  0, 0, 1>>

MatScale == <<2, 0, 0,
              0, 1, 0,
              0, 0, 1>>

MatRotate == <<0, -1, 0,
               1,  0, 0,
               0,  0, 1>>

MatPersp == <<1, 0, 0,
              0, 1, 0,
              1, 0, 1>>

UnitDomain == Rect(0, 0, 1, 1)
NegativeDomain == Rect(-1, -1, -2, -2)
ZeroRightDomain == Rect(-1, 0, 0, 1)

\* The kernel widths the caller passes: the small ones, the largest legal
\* one, and the two nearest illegal ones.
Widths == (-1 .. SmallWidth) \cup {MAX_KERNEL_WIDTH, MAX_KERNEL_WIDTH + 1}

\* Every mutator is called in every specification; a specification draws
\* the arguments of the members it is about from the larger sets.
BaseIn ==
    [wrap |-> {"kClamp_WrapMode"}, sample |-> {"kNormal_SampleMode"},
     filter |-> {"kNearest_Filter"}, matrix |-> {GrMatrix_setIdentity},
     concat |-> {GrMatrix_setIdentity}, domain |-> {GrRect_setEmpty},
     swap |-> {FALSE}, centerX1 |-> {0}, radius0 |-> {0}, posRoot |-> {FALSE},
     width |-> {0}, seed |-> {10}, incr |-> {NULL},
     rawBool |-> {FALSE}, rawByte |-> {0}, rawFloat |-> {-7}]

SamplerIn ==
    [BaseIn EXCEPT !.wrap = WrapMode, !.sample = SampleMode, !.filter = Filter,
                   !.matrix = {GrMatrix_setIdentity, MatRotate},
                   !.concat = {MatRotate},
                   !.domain = {GrRect_setEmpty, UnitDomain, NegativeDomain,
                               ZeroRightDomain},
                   !.swap = BOOLEAN, !.rawBool = BOOLEAN,
                   !.centerX1 = {GR_Scalar1}, !.width = {1}]

MatrixIn ==
    [BaseIn EXCEPT !.matrix = {GrMatrix_setIdentity, MatPersp},
                   !.concat = {MatTranslate, MatScale, MatRotate},
                   !.sample = {"kRadial_SampleMode"}]

Radial2In ==
    [BaseIn EXCEPT !.centerX1 = {0, GR_Scalar1, 2 * GR_Scalar1},
                   !.radius0 = {0, 5}, !.posRoot = BOOLEAN,
                   !.sample = {"kRadial2_SampleMode"},
                   !.wrap = {"kRepeat_WrapMode"},
                   !.filter = {"kConvolution_Filter"},
                   !.width = {1}, !.incr = {Ptr(<<3, 4>>)}]

ConvolutionIn ==
    [BaseIn EXCEPT !.width = Widths, !.seed = {10, 50},
                   !.incr = {NULL, Ptr(<<3, 4>>)},
                   !.rawByte = {0, MAX_KERNEL_WIDTH, MAX_KERNEL_WIDTH + 1,
                                UInt8Mod - 1},
                   !.rawFloat = {0, -7},
                   !.filter = {"kConvolution_Filter"},
                   !.centerX1 = {2 * GR_Scalar1}, !.posRoot = {TRUE}]

----------------------------------------------------------------------------
(* Specifications.                                                         *)

Init == Construct(SamplerIn)
Next == Mutate(SamplerIn)
Spec == Init /\ [][Next]_vars

InitMatrix == Construct(MatrixIn)
NextMatrix == Mutate(MatrixIn)
SpecMatrix == InitMatrix /\ [][NextMatrix]_vars

InitRadial2 == Construct(Radial2In)
NextRadial2 == Mutate(Radial2In)
SpecRadial2 == InitRadial2 /\ [][NextRadial2]_vars

InitConvolution == Construct(ConvolutionIn)
NextConvolution == Mutate(ConvolutionIn)
SpecConvolution == InitConvolution /\ [][NextConvolution]_vars

----------------------------------------------------------------------------
(* Properties.  last is the most recent call on the object and its         *)
(* arguments (for preConcatMatrix also the matrix the object held before). *)

Constructors ==
    {"GrSamplerState()", "GrSamplerState(Filter)",
     "GrSamplerState(WrapMode,WrapMode,Filter)",
     "GrSamplerState(WrapMode,WrapMode,GrMatrix,Filter)",
     "GrSamplerState(WrapMode,WrapMode,SampleMode,GrMatrix,Filter)"}

LegalWidth(k) == k >= 0 /\ k <= MAX_KERNEL_WIDTH

\* C1: right after the filter-only constructor GrSamplerState(Filter f) the
\* object is the default-constructed one except that filter == f; in
\* particular swapsRAndB() is false.
C1_FilterCtorIsDefaultButFilter ==
    last.op = "GrSamplerState(Filter)" =>
        /\ getWrapX = "kClamp_WrapMode"
        /\ getWrapY = "kClamp_WrapMode"
        /\ getSampleMode = "kNormal_SampleMode"
        /\ getFilter = last.args[1]
        /\ getMatrix = <<1, 0, 0, 0, 1, 0, 0, 0, 1>>
        /\ getTextureDomain = [left |-> 0, top |-> 0, right |-> 0, bottom |-> 0]
        /\ swapsRAndB = FALSE

\* The seven sampler fields hold the documented default values.
IsDefaultSampler ==
    /\ getWrapX = "kClamp_WrapMode"
    /\ getWrapY = "kClamp_WrapMode"
    /\ getSampleMode = "kNormal_SampleMode"
    /\ getFilter = "kNearest_Filter"
    /\ getMatrix = <<1, 0, 0, 0, 1, 0, 0, 0, 1>>
    /\ getTextureDomain = [left |-> 0, top |-> 0, right |-> 0, bottom |-> 0]
    /\ swapsRAndB = FALSE

\* C2: after setClampNoFilter(), whatever ran before, the seven sampler
\* fields equal those of a default-constructed object (Clamp, Clamp, Normal,
\* Nearest, identity, empty, false), as they do after GrSamplerState(); and
\* a second setClampNoFilter() in a row changes no field.
C2_SetClampNoFilterIsDefault ==
    /\ [](last.op \in {"setClampNoFilter", "GrSamplerState()"} => IsDefaultSampler)
    /\ [][last.op = "setClampNoFilter" /\ last'.op = "setClampNoFilter"
            => UNCHANGED <<samplerFields, radial2Fields, convolutionFields>>]_vars

\* C2 witness: setClampNoFilter() has run on an object a mutator had changed.
C2_Witness ==
    /\ last.op = "setClampNoFilter"
    /\ getRadial2CenterX1 = GR_Scalar1
    /\ getKernel[0] = 11

\* C3: setConvolutionParams(k, kernel, inc) with k in [0,25] returns with
\* getKernelWidth() == k; with a non-null k-length kernel getKernel()[i] ==
\* kernel[i] for every i in [0,k); with a null kernel every stored weight
\* keeps the value it had before the call.
C3_ConvolutionParamsStored ==
    /\ [](last.op = "setConvolutionParams" /\ LegalWidth(last.args[1])
            => /\ ~halted
               /\ getKernelWidth = last.args[1]
               /\ NULL # last.args[2]
                    => \A i \in 0 .. (last.args[1] - 1) :
                          getKernel[i] = last.args[2].at[i + 1])
    /\ [][last'.op = "setConvolutionParams" /\ LegalWidth(last'.args[1])
            /\ NULL = last'.args[2]
            => fKernel' = fKernel /\ fKernelWidth' = last'.args[1]]_vars

\* C3 witness: a null-kernel call set the width to 2 over the weights an
\* earlier 25-wide call had stored.
C3_Witness ==
    /\ last.op = "setConvolutionParams"
    /\ last.args[1] = 2
    /\ NULL = last.args[2]
    /\ getKernelWidth = 2
    /\ getKernel[0] = 51
    /\ getKernel[MAX_KERNEL_WIDTH - 1] = 50 + MAX_KERNEL_WIDTH

\* C4: setConvolutionParams accepts kernelWidth 0 and 25; with a kernelWidth
\* outside [0,25] the call is fatal, and it changes no stored kernel width,
\* kernel weight or image increment (nothing is clamped or truncated).
C4_WidthOutOfRangeIsFatal ==
    /\ [](last.op = "setConvolutionParams"
            => /\ halted <=> ~LegalWidth(last.args[1])
               /\ last.args[1] \in {0, MAX_KERNEL_WIDTH}
                    => ~halted /\ getKernelWidth = last.args[1])
    /\ [][last'.op = "setConvolutionParams" /\ ~LegalWidth(last'.args[1])
            => halted' /\ UNCHANGED convolutionFields]_vars

\* C4 witness: a call with kernelWidth 26 was fatal on an object whose
\* width an earlier call had set to 25.
C4_Witness ==
    /\ last.op = "setConvolutionParams"
    /\ last.args[1] = MAX_KERNEL_WIDTH + 1
    /\ halted
    /\ getKernelWidth = MAX_KERNEL_WIDTH
    /\ getKernel[MAX_KERNEL_WIDTH - 1] = 50 + MAX_KERNEL_WIDTH

\* C5: setClampNoFilter() leaves radial2CenterX1, radial2Radius0,
\* radial2PosRoot, kernelWidth, every kernel weight and the image increment
\* unchanged.
C5_SetClampNoFilterKeepsAux ==
    [][last'.op = "setClampNoFilter"
        => UNCHANGED <<radial2Fields, convolutionFields>>]_vars

\* C5 witness: setClampNoFilter() has run after setRadial2Params and
\* setConvolutionParams stored their values.
C5_Witness ==
    /\ last.op = "setClampNoFilter"
    /\ getRadial2CenterX1 = 2 * GR_Scalar1
    /\ isRadial2PosRoot
    /\ getKernelWidth = MAX_KERNEL_WIDTH
    /\ getKernel[0] = 51
    /\ getImageIncrement = <<3, 4>>

\* The points the composed matrix is applied to.
SamplePoints == {<<1, 0, 0>>, <<0, 1, 0>>, <<0, 0, 1>>, <<1, 2, 1>>}

\* C6: after preConcatMatrix(B) on an object holding matrix A, the stored
\* matrix applied to any point p gives what applying B to p and then A to
\* the result gives (the stored matrix is A*B).
C6_PreConcatIsOldTimesArg ==
    last.op = "preConcatMatrix" =>
        \A p \in SamplePoints :
            MapPoint(getMatrix, p) = MapPoint(last.args[2], MapPoint(last.args[1], p))

\* C6 witness: preConcatMatrix ran with matrices that do not commute.
C6_Witness ==
    /\ last.op = "preConcatMatrix"
    /\ MatMul(last.args[2], last.args[1]) # MatMul(last.args[1], last.args[2])

\* C7: hasTextureDomain() is false exactly when the stored domain's right
\* edge is zero; it is false after every constructor and after
\* setClampNoFilter(), and after setTextureDomain(r) it is true iff r's
\* right edge is not zero.
C7_HasDomainIffRightNonZero ==
    /\ ~hasTextureDomain <=> getTextureDomain.right = 0
    /\ last.op \in Constructors \cup {"setClampNoFilter"} => ~hasTextureDomain
    /\ last.op = "setTextureDomain"
         => (hasTextureDomain <=> last.args[1].right # 0)

\* C7 witness: a degenerate, negative rectangle was set and counts as a
\* domain.
C7_Witness ==
    /\ last.op = "setTextureDomain"
    /\ last.args[1].right < last.args[1].left
    /\ last.args[1].right < 0
    /\ hasTextureDomain

\* C8: after setRadial2Params(c, r, p): radial2IsDegenerate() iff c is the
\* scalar one, getRadial2CenterX1() == c, getRadial2Radius0() == r,
\* isRadial2PosRoot() == p; and no other mutator changes these.
C8_Radial2ParamsStoredAndKept ==
    /\ [](last.op = "setRadial2Params"
            => /\ radial2IsDegenerate <=> last.args[1] = GR_Scalar1
               /\ getRadial2CenterX1 = last.args[1]
               /\ getRadial2Radius0 = last.args[2]
               /\ isRadial2PosRoot = last.args[3])
    /\ [][last'.op # "setRadial2Params"
            => /\ getRadial2CenterX1' = getRadial2CenterX1
               /\ getRadial2Radius0' = getRadial2Radius0
               /\ isRadial2PosRoot' = isRadial2PosRoot
               /\ radial2IsDegenerate' = radial2IsDegenerate]_vars

\* C8 witness: a later setConvolutionParams left the degenerate parameters
\* setRadial2Params(1, 5, true) had stored.
C8_Witness ==
    /\ last.op = "setConvolutionParams"
    /\ radial2IsDegenerate
    /\ getRadial2Radius0 = 5
    /\ isRadial2PosRoot

\* C9: in every reachable state, from construction onward, getKernelWidth()
\* is in [0, MAX_KERNEL_WIDTH].
C9_KernelWidthInRange ==
    getKernelWidth \in 0 .. MAX_KERNEL_WIDTH

\* C10: getImageIncrement() reads (0,0) after a constructor and after
\* setConvolutionParams(k, kernel, null), and (inc[0], inc[1]) after
\* setConvolutionParams(k, kernel, inc) with a non-null inc.
C10_ImageIncrementZeroUnlessSupplied ==
    /\ last.op \in Constructors => getImageIncrement = <<0, 0>>
    /\ last.op = "setConvolutionParams" /\ ~halted
         => getImageIncrement = IF NULL = last.args[3] THEN <<0, 0>>
                                ELSE last.args[3].at

====
